---- MODULE Spec2Model ----
(***************************************************************************)
(* The two nabl integrations of rnabl/oneclaw.                             *)
(*                                                                         *)
(*   langgraph/main.py : the /chat endpoint drives a two-node graph        *)
(*                       (agent_node, tool_node) until should_continue     *)
(*                       routes to END.                                    *)
(*   crewai/main.py    : the two BaseTool._run methods that CrewAI calls.  *)
(*                                                                         *)
(* The language model, the remote workflow API and the user are the        *)
(* environment: their answers are drawn from small sets.  Python strings   *)
(* that the code builds with f-strings are sequences of tokens, message    *)
(* contents are plain strings, Python dicts are records.                   *)
(***************************************************************************)
EXTENDS Integers, Sequences, FiniteSets, TLC

\* ------------------------------------------------------------------ bounds
\* most llm.ainvoke calls of one request that the model explores
MaxModelCalls == 3
\* most tool calls one model response carries
MaxCalls == 2
\* most tool calls of one request, over all its model responses
MaxToolCalls == 3
\* longest Business Discovery query, in characters
MaxQueryLen == 4

\* ------------------------------------------------------- environment values
RequestIds == {1}
UserMessages == {"u1", "u2"}
Texts == {"t1", "t2"}
ToolCallIds == {"c1", "c2"}
ToolNames == {"nabl_audit", "nabl_discovery", "nonexistent"}
\* the arguments mapping of a tool call is opaque: whether it validates shows in
\* the handler raising or not
ToolArgs == {"args"}

\* langgraph/main.py:148 the system prompt (its text is never inspected)
SystemPrompt == "You are iClaw"
\* langgraph/main.py:163
FallbackText == "I couldn't process that request."

\* what the remote workflow API can answer (spec section 6), as response.json();
\* a Python string coming from outside is a one-token sequence
RemoteError == [status |-> "error", error |-> <<"e1">>]
AuditOk ==
    [status |-> "ok",
     result |-> [url |-> "example.com", score |-> "82", critical_issues |-> "1",
                 warnings |-> "3", passed |-> "40", report_url |-> "report"]]
Business == [name |-> "b1", phone |-> "p1", website |-> ""]
DiscoveryOk ==
    [status |-> "ok", result |-> [total_found |-> "1", businesses |-> <<Business>>]]
AuditResponses == {AuditOk, RemoteError}
DiscoveryResponses == {DiscoveryOk, RemoteError}
RemoteResponses == AuditResponses \cup DiscoveryResponses
\* argument validation, the HTTP call (transport, timeout) or response.json() raising
Raised == [raised |-> TRUE]
HandlerOutcomes == RemoteResponses \cup {Raised}
\* an invocation that reaches no handler
NoRequest == [none |-> TRUE]

\* ------------------------------------------------------------ langgraph data
ToolCalls == [id : ToolCallIds, name : ToolNames, args : ToolArgs]

SeqsUpTo(S, n) == UNION { [1..k -> S] : k \in 0..n }

DistinctIds(cs) == \A i, j \in 1..Len(cs) : i # j => cs[i].id # cs[j].id

\* the tool_calls a model response can carry: ids unique within the response
ToolCallSeqs == { cs \in SeqsUpTo(ToolCalls, MaxCalls) : DistinctIds(cs) }

SystemMessage(c) == [role |-> "system", content |-> c, tool_calls |-> <<>>]
HumanMessage(c) == [role |-> "human", content |-> c, tool_calls |-> <<>>]
AIMessage(c, cs) == [role |-> "ai", content |-> c, tool_calls |-> cs]

\* what llm.ainvoke can return
ModelResponses == { AIMessage(t, cs) : t \in Texts, cs \in ToolCallSeqs }

VARIABLES
    service,      \* which of the two servers the behaviour is one of
    crew,         \* crewai: the last tool run (the tools keep no state)
    phase,        \* per request: where chat() and the graph stand
    messages,     \* AgentState["messages"]
    tool_calls,   \* AgentState["tool_calls"]
    tool_results, \* AgentState["tool_results"]
    batch,        \* tool_node's local list tool_results while the loop runs
    reply,        \* what chat() gave the caller
    modelCalls,   \* history: number of llm.ainvoke calls made
    invocations,  \* history: every tool_node loop iteration, with the remote answer
    produced,     \* history: every ToolResult tool_node appended, in order
    heard         \* history: what the user and the model told the request, in order

vars == <<service, crew, phase, messages, tool_calls, tool_results, batch, reply, modelCalls,
          invocations, produced, heard>>

NoRun == [tool |-> "none"]
NoReply == [status |-> "none"]
ErrorReply == [status |-> "error"]

Last(s) == s[Len(s)]

\* should_continue that routes to the tool node whatever the state holds
should_continue_AlwaysTool(state_tool_calls) == "tool"

\* should_continue that ends the graph whatever the state holds
should_continue_AlwaysEnd(state_tool_calls) == "end"

\* langgraph/main.py:108-112
should_continue(state_tool_calls) ==
    IF state_tool_calls # <<>> THEN "tool" ELSE "end"

\* langgraph/main.py:162
AIMessagesOf(ms) == SelectSeq(ms, LAMBDA m : m.role = "ai")

\* the response text taken from the first AI message (ai_messages[0])
ResponseText_First(ms) ==
    IF AIMessagesOf(ms) # <<>> THEN Head(AIMessagesOf(ms)).content ELSE FallbackText

\* langgraph/main.py:163
ResponseText(ms) ==
    IF AIMessagesOf(ms) # <<>> THEN Last(AIMessagesOf(ms)).content ELSE FallbackText

\* no request has come in yet
NoRequests(ids) ==
    /\ crew = NoRun
    /\ phase = [r \in ids |-> "idle"]
    /\ messages = [r \in ids |-> <<>>]
    /\ tool_calls = [r \in ids |-> <<>>]
    /\ tool_results = [r \in ids |-> <<>>]
    /\ batch = [r \in ids |-> <<>>]
    /\ reply = [r \in ids |-> NoReply]
    /\ modelCalls = [r \in ids |-> 0]
    /\ invocations = [r \in ids |-> <<>>]
    /\ produced = [r \in ids |-> <<>>]
    /\ heard = [r \in ids |-> <<>>]

Init ==
    /\ service \in {"langgraph", "crewai"}
    /\ NoRequests(RequestIds)

\* a chat() whose initial_state is one module-level dict that every request
\* fills and runs the graph on
Chat_SharedState(r, msg) ==
    /\ service = "langgraph"
    /\ phase[r] = "idle"
    /\ messages' = [q \in DOMAIN messages |->
                       <<SystemMessage(SystemPrompt), HumanMessage(msg)>>]
    /\ tool_calls' = [q \in DOMAIN tool_calls |-> <<>>]
    /\ tool_results' = [q \in DOMAIN tool_results |-> <<>>]
    /\ phase' = [phase EXCEPT ![r] = "AWAITING_MODEL"]
    /\ heard' = [heard EXCEPT ![r] = <<HumanMessage(msg)>>]
    /\ UNCHANGED <<service, crew, batch, reply, modelCalls, invocations, produced>>

\* chat(): build initial_state and enter the graph at its entry point
Chat(r, msg) ==
    /\ service = "langgraph"
    /\ phase[r] = "idle"
    /\ messages' = [messages EXCEPT ![r] = <<SystemMessage(SystemPrompt), HumanMessage(msg)>>]
    /\ tool_calls' = [tool_calls EXCEPT ![r] = <<>>]
    /\ tool_results' = [tool_results EXCEPT ![r] = <<>>]
    /\ phase' = [phase EXCEPT ![r] = "AWAITING_MODEL"]
    /\ heard' = [heard EXCEPT ![r] = <<HumanMessage(msg)>>]
    /\ UNCHANGED <<service, crew, batch, reply, modelCalls, invocations, produced>>

\* an agent_node that keeps a sliding window of the history: the oldest message
\* leaves when the response comes in
AgentNode_SlidingWindow(r, response) ==
    /\ phase[r] = "AWAITING_MODEL"
    /\ modelCalls[r] < MaxModelCalls
    /\ Len(invocations[r]) + Len(response.tool_calls) <= MaxToolCalls
    /\ modelCalls' = [modelCalls EXCEPT ![r] = @ + 1]
    /\ messages' = [messages EXCEPT ![r] = Append(Tail(@), response)]
    /\ tool_calls' = [tool_calls EXCEPT ![r] = response.tool_calls]
    /\ phase' = [phase EXCEPT ![r] =
                    IF should_continue(response.tool_calls) = "tool"
                    THEN "AWAITING_TOOLS" ELSE "DONE"]
    /\ heard' = [heard EXCEPT ![r] = Append(@, response)]
    /\ UNCHANGED <<service, crew, tool_results, batch, reply, invocations, produced>>

\* agent_node that also empties tool_results
AgentNode_ClearsResults(r, response) ==
    /\ phase[r] = "AWAITING_MODEL"
    /\ modelCalls[r] < MaxModelCalls
    /\ Len(invocations[r]) + Len(response.tool_calls) <= MaxToolCalls
    /\ modelCalls' = [modelCalls EXCEPT ![r] = @ + 1]
    /\ messages' = [messages EXCEPT ![r] = Append(@, response)]
    /\ tool_calls' = [tool_calls EXCEPT ![r] = response.tool_calls]
    /\ tool_results' = [tool_results EXCEPT ![r] = <<>>]
    /\ phase' = [phase EXCEPT ![r] =
                    IF should_continue(response.tool_calls) = "tool"
                    THEN "AWAITING_TOOLS" ELSE "DONE"]
    /\ heard' = [heard EXCEPT ![r] = Append(@, response)]
    /\ UNCHANGED <<service, crew, batch, reply, invocations, produced>>

\* agent_node with an answer from the model, then the conditional edge
AgentNode(r, response) ==
    /\ phase[r] = "AWAITING_MODEL"
    /\ modelCalls[r] < MaxModelCalls
    /\ Len(invocations[r]) + Len(response.tool_calls) <= MaxToolCalls
    /\ modelCalls' = [modelCalls EXCEPT ![r] = @ + 1]
    /\ messages' = [messages EXCEPT ![r] = Append(@, response)]
    /\ tool_calls' = [tool_calls EXCEPT ![r] = response.tool_calls]
    /\ phase' = [phase EXCEPT ![r] =
                    IF should_continue(response.tool_calls) = "tool"
                    THEN "AWAITING_TOOLS" ELSE "DONE"]
    /\ heard' = [heard EXCEPT ![r] = Append(@, response)]
    /\ UNCHANGED <<service, crew, tool_results, batch, reply, invocations, produced>>

\* agent_node that swallows the failure of llm.ainvoke and ends the graph with
\* the state it has
AgentNodeRaises_Swallowed(r) ==
    /\ phase[r] = "AWAITING_MODEL"
    /\ modelCalls[r] < MaxModelCalls
    /\ modelCalls' = [modelCalls EXCEPT ![r] = @ + 1]
    /\ phase' = [phase EXCEPT ![r] = "DONE"]
    /\ UNCHANGED <<service, crew, heard, messages, tool_calls, tool_results, batch, reply,
                   invocations, produced>>

\* agent_node when llm.ainvoke raises: nothing catches it, chat() fails
AgentNodeRaises(r) ==
    /\ phase[r] = "AWAITING_MODEL"
    /\ modelCalls[r] < MaxModelCalls
    /\ modelCalls' = [modelCalls EXCEPT ![r] = @ + 1]
    /\ phase' = [phase EXCEPT ![r] = "FAILED"]
    /\ reply' = [reply EXCEPT ![r] = ErrorReply]
    /\ UNCHANGED <<service, crew, heard, messages, tool_calls, tool_results, batch, invocations, produced>>

IsRegistered(name) == name \in {"nabl_audit", "nabl_discovery"}

\* what a handler invocation can meet; an unregistered name reaches no handler
OutcomesFor(call) ==
    IF ~IsRegistered(call.name) THEN {NoRequest}
    ELSE IF call.name = "nabl_audit" THEN AuditResponses \cup {Raised}
    ELSE DiscoveryResponses \cup {Raised}

\* a handler that raises when the remote API answers status "error"
nabl_audit_RaisesOnError(outcome) ==
    IF "status" \in DOMAIN outcome /\ outcome.status = "error" THEN Raised ELSE outcome

\* langgraph/main.py:25-38: the handler returns response.json() whatever it
\* says; an exception on the way leaves the handler as it is (Raised)
nabl_audit(outcome) == outcome

\* langgraph/main.py:41-54
nabl_discovery(outcome) == outcome

\* a dispatch whose lookup of an unregistered name raises
ToolResultPayload_UnknownRaises(call, outcome) ==
    IF call.name = "nabl_audit" THEN nabl_audit(outcome)
    ELSE IF call.name = "nabl_discovery" THEN nabl_discovery(outcome)
    ELSE Raised

\* langgraph/main.py:90-95: the value bound to result, or Raised
ToolResultPayload(call, outcome) ==
    IF call.name = "nabl_audit" THEN nabl_audit(outcome)
    ELSE IF call.name = "nabl_discovery" THEN nabl_discovery(outcome)
    ELSE [error |-> <<"Unknown tool: ", call.name>>]

\* a dispatch that remembers the ids it has served and refuses a repeated one
ToolResult_RemembersIds(call, outcome) ==
    [tool_call_id |-> call.id,
     result |-> IF \E r \in DOMAIN produced :
                      \E i \in 1..Len(produced[r]) : produced[r][i].tool_call_id = call.id
                THEN [error |-> <<"duplicate call">>]
                ELSE ToolResultPayload(call, outcome)]

\* langgraph/main.py:97-100
ToolResult(call, outcome) ==
    [tool_call_id |-> call.id, result |-> ToolResultPayload(call, outcome)]

\* a batch that grows at the front (tool_results.insert(0, ...))
AppendResult_Prepend(results, result) == <<result>> \o results

\* langgraph/main.py:97: tool_results.append(...)
AppendResult(results, result) == Append(results, result)

\* the call the for loop of tool_node is at
CurrentCall(r) == tool_calls[r][Len(batch[r]) + 1]

\* a tool_node that returns its batch added to the state's tool_results
ToolNodeStep_Accumulates(r, outcome) ==
    /\ phase[r] = "AWAITING_TOOLS"
    /\ Len(batch[r]) < Len(tool_calls[r])
    /\ outcome \in OutcomesFor(CurrentCall(r))
    /\ ToolResultPayload(CurrentCall(r), outcome) # Raised
    /\ LET call == CurrentCall(r)
           results == AppendResult(batch[r], ToolResult(call, outcome))
       IN  /\ invocations' = [invocations EXCEPT ![r] =
                                 Append(@, [call |-> call, remote |-> outcome])]
           /\ produced' = [produced EXCEPT ![r] = Append(@, ToolResult(call, outcome))]
           /\ IF Len(results) = Len(tool_calls[r])
              THEN /\ tool_results' = [tool_results EXCEPT ![r] = @ \o results]
                   /\ batch' = [batch EXCEPT ![r] = <<>>]
                   /\ phase' = [phase EXCEPT ![r] = "AWAITING_MODEL"]
              ELSE /\ batch' = [batch EXCEPT ![r] = results]
                   /\ UNCHANGED <<tool_results, phase>>
    /\ UNCHANGED <<service, crew, heard, messages, tool_calls, reply, modelCalls>>

\* one iteration of tool_node's for loop; the last one also returns the state
ToolNodeStep(r, outcome) ==
    /\ phase[r] = "AWAITING_TOOLS"
    /\ Len(batch[r]) < Len(tool_calls[r])
    /\ outcome \in OutcomesFor(CurrentCall(r))
    /\ ToolResultPayload(CurrentCall(r), outcome) # Raised
    /\ LET call == CurrentCall(r)
           results == AppendResult(batch[r], ToolResult(call, outcome))
       IN  /\ invocations' = [invocations EXCEPT ![r] =
                                 Append(@, [call |-> call, remote |-> outcome])]
           /\ produced' = [produced EXCEPT ![r] = Append(@, ToolResult(call, outcome))]
           /\ IF Len(results) = Len(tool_calls[r])
              THEN /\ tool_results' = [tool_results EXCEPT ![r] = results]
                   /\ batch' = [batch EXCEPT ![r] = <<>>]
                   /\ phase' = [phase EXCEPT ![r] = "AWAITING_MODEL"]
              ELSE /\ batch' = [batch EXCEPT ![r] = results]
                   /\ UNCHANGED <<tool_results, phase>>
    /\ UNCHANGED <<service, crew, heard, messages, tool_calls, reply, modelCalls>>

\* a handler raises inside tool_node: nothing catches it, chat() fails
ToolNodeRaises(r, outcome) ==
    /\ phase[r] = "AWAITING_TOOLS"
    /\ Len(batch[r]) < Len(tool_calls[r])
    /\ outcome \in OutcomesFor(CurrentCall(r))
    /\ ToolResultPayload(CurrentCall(r), outcome) = Raised
    /\ invocations' = [invocations EXCEPT ![r] =
                          Append(@, [call |-> CurrentCall(r), remote |-> outcome])]
    /\ batch' = [batch EXCEPT ![r] = <<>>]
    /\ phase' = [phase EXCEPT ![r] = "FAILED"]
    /\ reply' = [reply EXCEPT ![r] = ErrorReply]
    /\ UNCHANGED <<service, crew, heard, messages, tool_calls, tool_results, modelCalls, produced>>

\* chat() after agent.ainvoke returned: langgraph/main.py:161-168
ChatReturn(r) ==
    /\ phase[r] = "DONE"
    /\ reply' = [reply EXCEPT ![r] =
                    [status |-> "ok",
                     response |-> ResponseText(messages[r]),
                     tool_results |-> tool_results[r]]]
    /\ phase' = [phase EXCEPT ![r] = "RETURNED"]
    /\ UNCHANGED <<service, crew, heard, messages, tool_calls, tool_results, batch, modelCalls,
                   invocations, produced>>

\* ------------------------------------------------------------------ crewai
Urls == {"example.com", "bad url"}
QueryChars == {"a", " ", "|"}
Queries == SeqsUpTo(QueryChars, MaxQueryLen)

\* str.split("|")
RECURSIVE SplitFrom(_, _, _)
SplitFrom(q, i, part) ==
    IF i > Len(q) THEN <<part>>
    ELSE IF q[i] = "|" THEN <<part>> \o SplitFrom(q, i + 1, <<>>)
    ELSE SplitFrom(q, i + 1, Append(part, q[i]))
Split(q) == SplitFrom(q, 1, <<>>)

\* str.strip()
RECURSIVE LStrip(_)
LStrip(t) == IF t # <<>> /\ Head(t) = " " THEN LStrip(Tail(t)) ELSE t
RECURSIVE RStrip(_)
RStrip(t) == IF t # <<>> /\ Last(t) = " " THEN RStrip(SubSeq(t, 1, Len(t) - 1)) ELSE t
\* strip that leaves the text as it is
Strip_None(t) == t

Strip(t) == RStrip(LStrip(t))

\* businesses[:5]
FirstFive(bs) == SubSeq(bs, 1, IF Len(bs) < 5 THEN Len(bs) ELSE 5)

IntToken(i) == CASE i = 1 -> "1" [] i = 2 -> "2" [] i = 3 -> "3" [] i = 4 -> "4" [] OTHER -> "5"

\* crewai/main.py:87-90
RECURSIVE BusinessLines(_, _)
BusinessLines(bs, i) ==
    IF i > Len(bs) THEN <<>>
    ELSE <<IntToken(i), ". ", bs[i].name, "\n">>
         \o (IF bs[i].phone # "" THEN <<"   Phone: ", bs[i].phone, "\n">> ELSE <<>>)
         \o (IF bs[i].website # "" THEN <<"   Website: ", bs[i].website, "\n">> ELSE <<>>)
         \o BusinessLines(bs, i + 1)

\* crewai/main.py:41-52
AuditOutput(result) ==
    IF result.status = "error" THEN <<"Audit failed: ">> \o result.error
    ELSE LET data == result.result
         IN  <<"\nAudit Results for ", data.url, ":\n- Overall Score: ", data.score,
               "/100\n- Critical Issues: ", data.critical_issues,
               "\n- Warnings: ", data.warnings, "\n- Passed: ", data.passed,
               "\n- Report: ", data.report_url, "\n">>

\* crewai/main.py:80-92
DiscoveryOutput(niche, location, result) ==
    IF result.status = "error" THEN <<"Discovery failed: ">> \o result.error
    ELSE LET data == result.result
         IN  <<"Found ", data.total_found, " ">> \o niche \o <<" businesses in ">>
             \o location \o <<":\n\n">> \o BusinessLines(FirstFive(data.businesses), 1)

InvalidFormat == <<"Invalid format. Use: 'niche|location'">>

\* NablAuditTool._run
AuditRun(url, outcome) ==
    /\ crew' = [tool |-> "Website Audit", input |-> <<url>>,
                sent |-> <<[workflow |-> "audit", params |-> [url |-> url]]>>,
                remote |-> outcome,
                raised |-> (outcome = Raised),
                output |-> IF outcome = Raised THEN <<>> ELSE AuditOutput(outcome)]
    /\ UNCHANGED <<service, heard, phase, messages, tool_calls, tool_results, batch, reply,
                   modelCalls, invocations, produced>>

\* NablDiscoveryTool._run
DiscoveryRun(query, outcome) ==
    /\ LET parts == Split(query)
       IN  IF Len(parts) # 2
           THEN crew' = [tool |-> "Business Discovery", input |-> query, sent |-> <<>>,
                         remote |-> NoRequest, raised |-> FALSE,
                         output |-> InvalidFormat]
           ELSE LET niche == Strip(parts[1])
                    location == Strip(parts[2])
                IN  crew' = [tool |-> "Business Discovery", input |-> query,
                             sent |-> <<[workflow |-> "discovery",
                                         params |-> [niche |-> niche,
                                                     location |-> location,
                                                     limit |-> 10]]>>,
                             remote |-> outcome,
                             raised |-> (outcome = Raised),
                             output |-> IF outcome = Raised THEN <<>>
                                        ELSE DiscoveryOutput(niche, location, outcome)]
    /\ UNCHANGED <<service, heard, phase, messages, tool_calls, tool_results, batch, reply,
                   modelCalls, invocations, produced>>

Next ==
    \/ \E r \in DOMAIN phase, msg \in UserMessages : Chat(r, msg)
    \/ \E r \in DOMAIN phase, response \in ModelResponses : AgentNode(r, response)
    \/ \E r \in DOMAIN phase : AgentNodeRaises(r)
    \/ \E r \in DOMAIN phase, outcome \in HandlerOutcomes \cup {NoRequest} :
          ToolNodeStep(r, outcome)
    \/ \E r \in DOMAIN phase, outcome \in HandlerOutcomes \cup {NoRequest} :
          ToolNodeRaises(r, outcome)
    \/ \E r \in DOMAIN phase : ChatReturn(r)
    \/ /\ service = "crewai"
       /\ \E url \in Urls, outcome \in AuditResponses \cup {Raised} : AuditRun(url, outcome)
    \/ /\ service = "crewai"
       /\ \E query \in Queries, outcome \in DiscoveryResponses \cup {Raised} :
             DiscoveryRun(query, outcome)

Spec == Init /\ [][Next]_vars

\* ------------------------------------------- two requests in flight at once
\* The langgraph server takes requests concurrently: every await (the model
\* call, each handler call) is a point where the other request may run.
ConcRequestIds == {1, 2}

\* the model responses the two requests draw from
ConcResponses ==
    { AIMessage(t, <<>>) : t \in Texts }
    \cup { AIMessage("t1", <<[id |-> "c1", name |-> "nabl_audit", args |-> "args"]>>),
           AIMessage("t2", <<[id |-> "c2", name |-> "nonexistent", args |-> "args"]>>) }

InitConc ==
    /\ service = "langgraph"
    /\ NoRequests(ConcRequestIds)

NextConc ==
    \/ \E r \in DOMAIN phase, msg \in UserMessages : Chat(r, msg)
    \/ \E r \in DOMAIN phase, response \in ConcResponses : AgentNode(r, response)
    \/ \E r \in DOMAIN phase : AgentNodeRaises(r)
    \/ \E r \in DOMAIN phase, outcome \in HandlerOutcomes \cup {NoRequest} :
          ToolNodeStep(r, outcome)
    \/ \E r \in DOMAIN phase, outcome \in HandlerOutcomes \cup {NoRequest} :
          ToolNodeRaises(r, outcome)
    \/ \E r \in DOMAIN phase : ChatReturn(r)

SpecConc == InitConc /\ [][NextConc]_vars
\* ------------------------------------------------------------------ claims
\* a model call of request r raised: it was counted and left no Assistant message
ModelFailed(r) == modelCalls[r] > Len(AIMessagesOf(messages[r]))
\* a handler of request r raised: its invocation left no ToolResult
ToolFailed(r) == Len(invocations[r]) > Len(produced[r])
\* tool iterations of request r so far: Assistant messages that carry tool calls
ToolIterations(r) == Len(SelectSeq(messages[r], LAMBDA m : m.tool_calls # <<>>))

\* C1: when the loop reached DONE and chat answered, the tool_results of the
\* answer are every ToolResult produced in all iterations, in production order.
C1_AllResultsReturned ==
    \A r \in DOMAIN phase :
        phase[r] = "RETURNED" => reply[r].tool_results = produced[r]

\* C2: when control is back at the model after a tool batch, the history holds
\* one ToolResult message per tool call dispatched so far: it is longer than
\* the history that ended with the tool-requesting Assistant message, by the
\* size of the batch, and it ends with a ToolResult message.
C2_ResultsAppendedToHistory ==
    \A r \in DOMAIN phase :
        (phase[r] = "AWAITING_MODEL" /\ tool_calls[r] # <<>>) =>
            /\ Len(messages[r]) = 2 + modelCalls[r] + Len(produced[r])
            /\ Last(messages[r]).role = "tool"
\* C3: with a model that asks for a tool on every call the loop is cut off:
\* there is a maximum M of tool iterations at which the request has ended in
\* an error.
C3_LoopCutOffWithError ==
    \E M \in 1..MaxModelCalls :
        \A r \in DOMAIN phase : ToolIterations(r) >= M => phase[r] = "FAILED"

\* C4: a handler that fails leaves a ToolResult {error: message} for its call,
\* the request does not fail, and the rest of the batch is still dispatched.
C4_HandlerFailureIsData ==
    \A r \in DOMAIN phase :
        \A i \in 1..Len(invocations[r]) :
            invocations[r][i].remote = Raised =>
                /\ i <= Len(produced[r])
                /\ produced[r][i].tool_call_id = invocations[r][i].call.id
                /\ "error" \in DOMAIN produced[r][i].result
                /\ ~(phase[r] = "FAILED" /\ ~ModelFailed(r))

\* the tool calls the Assistant messages of a history carry, all told
RECURSIVE CallsRequested(_)
CallsRequested(ms) ==
    IF ms = <<>> THEN 0 ELSE Len(Head(ms).tool_calls) + CallsRequested(Tail(ms))

\* C5: every invocation of an unregistered name left, at its place in the
\* order of production, the ToolResult {error: "Unknown tool: <name>"} with
\* the call's id; no handler failure comes of it, so a request that failed
\* right after one failed in the model call, and when the unknown call was the
\* last of its batch control is back at the model.
C5_UnknownToolIsData ==
    \A r \in DOMAIN phase :
        /\ \A i \in 1..Len(invocations[r]) :
               ~IsRegistered(invocations[r][i].call.name) =>
                   /\ i <= Len(produced[r])
                   /\ produced[r][i] =
                         [tool_call_id |-> invocations[r][i].call.id,
                          result |-> [error |-> <<"Unknown tool: ",
                                                  invocations[r][i].call.name>>]]
        /\ (/\ invocations[r] # <<>>
            /\ ~IsRegistered(Last(invocations[r]).call.name)
            /\ phase[r] = "FAILED") => ModelFailed(r)
        /\ (/\ invocations[r] # <<>>
            /\ ~IsRegistered(Last(invocations[r]).call.name)
            /\ Len(invocations[r]) = CallsRequested(messages[r])
            /\ Last(messages[r]).tool_calls # <<>>
            /\ ~ModelFailed(r)) => phase[r] = "AWAITING_MODEL"

C5_Witness ==
    \E r \in DOMAIN phase :
        /\ phase[r] = "AWAITING_MODEL"
        /\ invocations[r] # <<>>
        /\ Last(invocations[r]).call.name = "nonexistent"
        /\ Last(tool_results[r]).result = [error |-> <<"Unknown tool: ", "nonexistent">>]

\* C6: a request whose first model response carries no tool call made exactly
\* one model call and no tool invocation, and chat answers that response's
\* text with an empty tool_results.
C6_NoToolCallsOneModelCall ==
    \A r \in DOMAIN phase :
        (Len(messages[r]) >= 3 /\ messages[r][3].tool_calls = <<>>) =>
            /\ modelCalls[r] = 1
            /\ invocations[r] = <<>>
            /\ phase[r] \in {"DONE", "RETURNED"}
            /\ phase[r] = "RETURNED" =>
                   reply[r] = [status |-> "ok", response |-> messages[r][3].content,
                               tool_results |-> <<>>]

C6_Witness ==
    \E r \in DOMAIN phase :
        /\ phase[r] = "RETURNED"
        /\ Len(messages[r]) = 3
        /\ reply[r].response = "t2"

\* the ids of a sequence of tool calls, and of a sequence of ToolResults
CallIds(cs) == [i \in 1..Len(cs) |-> cs[i].id]
ResultIds(rs) == [i \in 1..Len(rs) |-> rs[i].tool_call_id]

\* C7: the batch tool_node builds for an Assistant response with N >= 1 tool
\* calls follows the emission order: while it is being built its ids are the
\* ids of the first calls, and once tool_node has returned it has length N
\* and its i-th id is the i-th call's id.
C7_BatchAlignedWithCalls ==
    \A r \in DOMAIN phase :
        /\ phase[r] = "AWAITING_TOOLS" =>
               /\ Len(batch[r]) < Len(tool_calls[r])
               /\ ResultIds(batch[r]) = SubSeq(CallIds(tool_calls[r]), 1, Len(batch[r]))
        /\ (phase[r] = "AWAITING_MODEL" /\ tool_calls[r] # <<>>) =>
               /\ Len(tool_results[r]) = Len(tool_calls[r])
               /\ ResultIds(tool_results[r]) = CallIds(tool_calls[r])

C7_Witness ==
    \E r \in DOMAIN phase :
        /\ phase[r] = "AWAITING_MODEL"
        /\ Len(tool_calls[r]) = 2
        /\ ResultIds(tool_results[r]) = <<"c2", "c1">>

\* C8: once a model call has failed the request is failed: chat gave no text
\* and no tool_results, the failed call was the last model call, and no step
\* makes another model call or tool invocation for the request.
C8_ModelFailureIsTerminal ==
    /\ [](\A r \in DOMAIN phase :
            ModelFailed(r) =>
                /\ phase[r] = "FAILED"
                /\ reply[r] = ErrorReply
                /\ modelCalls[r] = Len(AIMessagesOf(messages[r])) + 1)
    /\ [][\A r \in DOMAIN phase :
            ModelFailed(r) =>
                /\ modelCalls'[r] = modelCalls[r]
                /\ invocations'[r] = invocations[r]
                /\ reply'[r] = reply[r]]_vars

C8_Witness ==
    \E r \in DOMAIN phase :
        /\ ModelFailed(r)
        /\ modelCalls[r] = 2
        /\ produced[r] # <<>>

\* the run of C9: the first response carries one tool call, the second none
OneToolRun(r) ==
    /\ Len(messages[r]) = 4
    /\ Len(messages[r][3].tool_calls) = 1
    /\ messages[r][4].tool_calls = <<>>

\* C9: in that run chat answers the second response's text and one ToolResult,
\* with the call's id and, for a registered tool, the value its handler
\* returned.
C9_OneToolRunAnswer ==
    \A r \in DOMAIN phase :
        (phase[r] = "RETURNED" /\ OneToolRun(r)) =>
            /\ reply[r].response = messages[r][4].content
            /\ Len(reply[r].tool_results) = 1
            /\ reply[r].tool_results[1].tool_call_id = messages[r][3].tool_calls[1].id
            /\ IsRegistered(messages[r][3].tool_calls[1].name) =>
                   reply[r].tool_results[1].result = invocations[r][1].remote

C9_Witness ==
    \E r \in DOMAIN phase :
        /\ phase[r] = "RETURNED"
        /\ OneToolRun(r)
        /\ messages[r][3].content = "t1"
        /\ messages[r][3].tool_calls[1].name = "nabl_audit"
        /\ reply[r] = [status |-> "ok", response |-> "t2",
                       tool_results |-> <<[tool_call_id |-> "c1", result |-> AuditOk]>>]

IsErrorAnswer(remote) == "status" \in DOMAIN remote /\ remote.status = "error"

\* C10: an answer {status: "error", error: s} of the remote API is data: in
\* the langgraph loop it is the payload of the call's ToolResult and the
\* invocation did not raise; the crewai tools return "Audit failed: s" and
\* "Discovery failed: s" and do not raise.
C10_RemoteErrorIsData ==
    /\ \A r \in DOMAIN phase :
           \A i \in 1..Len(invocations[r]) :
               IsErrorAnswer(invocations[r][i].remote) =>
                   /\ i <= Len(produced[r])
                   /\ produced[r][i] = [tool_call_id |-> invocations[r][i].call.id,
                                        result |-> invocations[r][i].remote]
    /\ (crew.tool # "none" /\ IsErrorAnswer(crew.remote)) =>
           /\ ~crew.raised
           /\ crew.tool = "Website Audit" =>
                  crew.output = <<"Audit failed: ">> \o crew.remote.error
           /\ crew.tool = "Business Discovery" =>
                  crew.output = <<"Discovery failed: ">> \o crew.remote.error

C10_Witness ==
    \E r \in DOMAIN phase :
        /\ phase[r] = "RETURNED"
        /\ reply[r].tool_results # <<>>
        /\ reply[r].tool_results[1].result = RemoteError

\* the crewai side of C10 happens too
C10_CrewCase ==
    /\ crew.tool = "Business Discovery"
    /\ crew.output = <<"Discovery failed: ", "e1">>
ToolMessages(r) == SelectSeq(messages[r], LAMBDA m : m.tool_calls # <<>>)
\* how many of them have had their whole batch dispatched and returned
BatchesReturned(r) ==
    IF phase[r] = "AWAITING_TOOLS" \/ ToolFailed(r)
    THEN Len(ToolMessages(r)) - 1 ELSE Len(ToolMessages(r))
\* the ids of the tool calls the most recent Assistant message carries
LatestCallIds(r) ==
    IF AIMessagesOf(messages[r]) = <<>> THEN {}
    ELSE { Last(AIMessagesOf(messages[r])).tool_calls[i].id :
             i \in 1..Len(Last(AIMessagesOf(messages[r])).tool_calls) }

IsPrefix(s, t) == Len(s) <= Len(t) /\ SubSeq(t, 1, Len(s)) = s

\* C13: the message sequence of a request starts as exactly [System, User],
\* and every step leaves the sequence it had as a prefix of the one it has
\* after: nothing is removed, reordered or rewritten.
C13_MessagesAppendOnly ==
    /\ [](\A r \in DOMAIN phase :
            /\ phase[r] = "idle" <=> messages[r] = <<>>
            /\ phase[r] # "idle" =>
                   /\ Len(messages[r]) >= 2
                   /\ messages[r][1] = SystemMessage(SystemPrompt)
                   /\ messages[r][2].role = "human"
                   /\ messages[r][2].content \in UserMessages
            /\ (phase[r] = "AWAITING_MODEL" /\ modelCalls[r] = 0) => Len(messages[r]) = 2)
    /\ [][\A r \in DOMAIN phase :
            phase[r] # "idle" => IsPrefix(messages[r], messages'[r])]_vars

C13_Witness ==
    \E r \in DOMAIN phase :
        /\ Len(messages[r]) = 5
        /\ messages[r][2].content = "u2"
        /\ messages[r][3].content = "t2"
        /\ messages[r][5].content = "t1"
\* C14: the loop of a request is sequential and alternating.  It starts in
\* AWAITING_MODEL; a model response moves it to AWAITING_TOOLS exactly when it
\* carries tool calls and to DONE exactly when it carries none; from
\* AWAITING_TOOLS it only ever moves to AWAITING_MODEL, and then every tool
\* call requested so far has its result; nothing follows DONE but chat's
\* answer; a model call starts only in AWAITING_MODEL with no batch under way.
C14_StrictAlternation ==
    [][\A r \in DOMAIN phase :
          /\ (phase[r] = "idle" /\ phase'[r] # "idle") => phase'[r] = "AWAITING_MODEL"
          /\ (phase[r] = "AWAITING_MODEL" /\ messages'[r] # messages[r]) =>
                 phase'[r] = IF Last(messages'[r]).tool_calls # <<>>
                             THEN "AWAITING_TOOLS" ELSE "DONE"
          /\ phase[r] = "AWAITING_TOOLS" =>
                 /\ phase'[r] \in {"AWAITING_TOOLS", "AWAITING_MODEL"}
                 /\ phase'[r] = "AWAITING_MODEL" =>
                        Len(produced'[r]) = CallsRequested(messages[r])
          /\ phase[r] \in {"DONE", "RETURNED"} =>
                 /\ phase'[r] \in {"DONE", "RETURNED"}
                 /\ modelCalls'[r] = modelCalls[r]
                 /\ invocations'[r] = invocations[r]
          /\ modelCalls'[r] # modelCalls[r] =>
                 phase[r] = "AWAITING_MODEL" /\ batch[r] = <<>>]_vars
\* what request r returns when it runs alone and is told what heard[r] and
\* invocations[r] record: the history is the system prompt and what it heard,
\* the pending calls are those of the last response, the batch is that of the
\* last response with tool calls, built from the answers its handlers gave
HistoryAlone(r) == <<SystemMessage(SystemPrompt)>> \o heard[r]
ResultsAlone(r) ==
    [i \in 1..Len(produced[r]) |->
        ToolResult(invocations[r][i].call, invocations[r][i].remote)]
LastBatchAlone(r) ==
    LET asked == SelectSeq(heard[r], LAMBDA m : m.tool_calls # <<>>)
        done == IF phase[r] = "AWAITING_TOOLS" \/ ToolFailed(r)
                THEN Len(asked) - 1 ELSE Len(asked)
        upTo == CallsRequested(SubSeq(asked, 1, done))
    IN  IF done = 0 THEN <<>>
        ELSE SubSeq(ResultsAlone(r), upTo - Len(asked[done].tool_calls) + 1, upTo)
ReplyAlone(r) ==
    [status |-> "ok", response |-> Last(heard[r]).content,
     tool_results |-> LastBatchAlone(r)]

\* C15: with two requests interleaved at every await, the state of each holds
\* only what that request was told, and each answer is the one the request
\* gets when it runs alone with the same model and tool responses.
C15_RequestsIsolated ==
    \A r \in DOMAIN phase :
        /\ phase[r] = "idle" => messages[r] = <<>>
        /\ phase[r] # "idle" =>
               /\ messages[r] = HistoryAlone(r)
               /\ tool_calls[r] = Last(heard[r]).tool_calls
               /\ tool_results[r] = LastBatchAlone(r)
               /\ produced[r] = ResultsAlone(r)
        /\ phase[r] = "RETURNED" => reply[r] = ReplyAlone(r)

C15_Witness ==
    /\ DOMAIN phase = {1, 2}
    /\ phase[1] = "AWAITING_MODEL"
    /\ tool_results[1] = <<[tool_call_id |-> "c1", result |-> AuditOk]>>
    /\ phase[2] = "AWAITING_TOOLS"
    /\ tool_calls[2] = <<[id |-> "c2", name |-> "nonexistent", args |-> "args"]>>
    /\ tool_results[2] = <<>>
    /\ heard[1][1].content = "u1" /\ heard[2][1].content = "u2"
\* C16: when the loop has completed normally the history holds an Assistant
\* message, its last message is that Assistant message and carries no tool
\* call, state tool_calls is empty, and chat answers that message's text, not
\* the fallback text.
C16_NormalCompletion ==
    \A r \in DOMAIN phase :
        /\ phase[r] \in {"DONE", "RETURNED"} =>
               /\ AIMessagesOf(messages[r]) # <<>>
               /\ Last(messages[r]).role = "ai"
               /\ Last(messages[r]).tool_calls = <<>>
               /\ tool_calls[r] = <<>>
        /\ phase[r] = "RETURNED" =>
               /\ reply[r].response = Last(messages[r]).content
               /\ reply[r].response # FallbackText

C16_Witness ==
    \E r \in DOMAIN phase :
        /\ phase[r] = "RETURNED"
        /\ Len(messages[r]) = 4
        /\ Len(messages[r][3].tool_calls) = 2
        /\ messages[r][3].content = "t2"
        /\ reply[r].response = "t1"
\* Positions of the separator in a query
Separators(q) == {i \in 1..Len(q) : q[i] = "|"}
\* n blanks
Blanks(n) == [i \in 1..n |-> " "]
\* t is part without the blanks around it
IsTrimmed(t, part) ==
    /\ t # <<>> => Head(t) # " " /\ Last(t) # " "
    /\ \E a, b \in 0..Len(part) : part = Blanks(a) \o t \o Blanks(b)

\* C17: the CrewAI Business Discovery tool answers the invalid-format text
\* and sends no request unless its query holds exactly one '|'; with exactly
\* one it sends exactly one discovery request, with the niche and location
\* being the text before and after the separator without surrounding blanks.
C17_DiscoveryQueryFormat ==
    crew.tool = "Business Discovery" =>
        LET q == crew.input
            seps == Separators(q)
        IN  IF Cardinality(seps) # 1
            THEN crew.output = InvalidFormat /\ crew.sent = <<>>
            ELSE LET k == CHOOSE i \in seps : TRUE
                 IN  /\ Len(crew.sent) = 1
                     /\ crew.sent[1].workflow = "discovery"
                     /\ IsTrimmed(crew.sent[1].params.niche, SubSeq(q, 1, k - 1))
                     /\ IsTrimmed(crew.sent[1].params.location, SubSeq(q, k + 1, Len(q)))
                     /\ crew.output # InvalidFormat

C17_Witness ==
    /\ crew.tool = "Business Discovery"
    /\ crew.input = <<" ", "a", "|", "a">>
    /\ Len(crew.sent) = 1
    /\ crew.sent[1].params.niche = <<"a">>
    /\ crew.sent[1].params.location = <<"a">>

\* A query with two separators was refused without a request
C17_InvalidCase ==
    /\ crew.tool = "Business Discovery"
    /\ crew.input = <<"a", "|", "|", "a">>
    /\ crew.sent = <<>>
\* The last n elements of a sequence
LastN(s, n) == SubSeq(s, Len(s) - n + 1, Len(s))

\* C18: a step in which agent_node returns appends exactly one Assistant
\* message to messages, sets tool_calls to that message's tool calls and
\* leaves tool_results alone; a step of tool_node leaves messages and
\* tool_calls alone, and when tool_node returns, tool_results is replaced by
\* the batch it built for the current tool_calls, and is otherwise unchanged.
C18_NodeFrames ==
    [][\A r \in DOMAIN phase :
          /\ (modelCalls'[r] # modelCalls[r] /\ phase'[r] # "FAILED") =>
                 /\ Len(messages'[r]) = Len(messages[r]) + 1
                 /\ SubSeq(messages'[r], 1, Len(messages[r])) = messages[r]
                 /\ Last(messages'[r]).role = "ai"
                 /\ tool_calls'[r] = Last(messages'[r]).tool_calls
                 /\ tool_results'[r] = tool_results[r]
          /\ invocations'[r] # invocations[r] =>
                 /\ messages'[r] = messages[r]
                 /\ tool_calls'[r] = tool_calls[r]
                 /\ IF phase'[r] = "AWAITING_MODEL"
                    THEN tool_results'[r] = LastN(produced'[r], Len(tool_calls[r]))
                    ELSE tool_results'[r] = tool_results[r]
      ]_vars

C18_Witness ==
    \E r \in DOMAIN phase :
        /\ phase[r] = "AWAITING_TOOLS"
        /\ modelCalls[r] = 2
        /\ Len(tool_results[r]) = 2
        /\ Len(tool_calls[r]) = 1
        /\ batch[r] = <<>>
        /\ Len(messages[r]) = 4
====
